---- MODULE Spec2Model ----
(***************************************************************************)
(* The score-tracking web application of gameapp: the Score table          *)
(* (gameapp/models.py), the auth User table it references, and the request *)
(* handlers of gameapp/views.py (page handlers, register, save_score).     *)
(*                                                                         *)
(* A request occupies a slot of `req` from its first step until its        *)
(* response is returned.  Handlers that touch the database twice           *)
(* (register: exists() then create_user(); save_score: parse then          *)
(* Score.objects.create()) take one step per database operation, since     *)
(* the application takes no lock and opens no transaction around them.     *)
(***************************************************************************)
EXTENDS Integers, Sequences, FiniteSets, TLC

VARIABLES
    users,        \* auth_user rows: set of [id, username]
    scores,       \* gameapp_score rows in storage order: sequence of Score rows
    nextUserId,   \* next auto-increment primary key of auth_user
    nextScoreId,  \* next auto-increment primary key of gameapp_score
    clock,        \* the wall clock read by auto_now_add on insert
    req           \* request slot -> the request in flight there, or Idle

vars == <<users, scores, nextUserId, nextScoreId, clock, req>>

----------------------------------------------------------------------------
(* Bounds of the model.                                                    *)

\* users ever created (registrations that reach the INSERT)
MaxUserId == 2
\* Score rows ever created in the request-level specifications
MaxScoreId == 2
\* Score rows ever created in the leaderboard specification (more than 10)
MaxTopScores == 12
\* Score rows ever created in the statistics specification
MaxStatsScores == 4

\* Request slots: the concurrency claims are about two requests in flight.
Requests == {"r1", "r2"}
\* The slot used where requests are served one at a time.
OneRequest == {"r1"}

----------------------------------------------------------------------------
(* Program constants.                                                      *)

\* views.py:32  Score.objects.all().order_by('-score')[:10]
TopLimit == 10

\* models.py:9  game_mode = CharField(max_length=50, default="standard")
ModelDefaultGameMode == "standard"
\* views.py:77  data.get('game_mode', 'Unknown Player')
ViewDefaultGameMode == "Unknown Player"
\* views.py:78  data.get('player_name', 'Unknown Player')
ViewDefaultPlayerName == "Unknown Player"

----------------------------------------------------------------------------
(* JSON values, as json.loads returns them.                                *)

JInt(n) == [type |-> "int", int |-> n, str |-> ""]
JStr(s) == [type |-> "str", int |-> 0, str |-> s]
JNull == [type |-> "null", int |-> 0, str |-> ""]

\* A request body: text that is not JSON, a JSON array, or a JSON object
\* (a finite map from keys to JSON values).
NoData == [k \in {} |-> JNull]
EmptyBody == [kind |-> "empty", data |-> NoData]
MalformedBody == [kind |-> "malformed", data |-> NoData]
ArrayBody == [kind |-> "array", data |-> NoData]
ObjectBody(d) == [kind |-> "object", data |-> d]

\* Marks a key the client left out when the bodies below are enumerated.
Absent == [type |-> "absent", int |-> 0, str |-> ""]

\* The JSON object {"score": s, "game_mode": m, "player_name": n} without
\* the keys given as Absent.
MakeObject(s, m, n) ==
    LET kv == [score |-> s, game_mode |-> m, player_name |-> n]
        ks == { k \in {"score", "game_mode", "player_name"} : kv[k] # Absent }
    IN  ObjectBody([k \in ks |-> kv[k]])

\* json.loads(request.body): raises on text that is not JSON.
JsonLoadsRaises(body) == body.kind = "malformed"

\* data.get(key, default) on the parsed value: only a dict has .get, so any
\* other JSON value raises AttributeError.
GetRaises(body) == body.kind # "object"

\* dict.get(key): the value, or None when the key is absent.
DictGet(body, key) ==
    IF key \in DOMAIN body.data THEN body.data[key] ELSE JNull

\* dict.get(key, default)
DictGetDefault(body, key, default) ==
    IF key \in DOMAIN body.data THEN body.data[key] ELSE JStr(default)

----------------------------------------------------------------------------
(* request.user, as the authentication middleware resolves it.             *)

AnonymousUser == [is_authenticated |-> FALSE, id |-> 0, username |-> ""]
AuthUser(u) == [is_authenticated |-> TRUE, id |-> u.id, username |-> u.username]

\* The callers a request can come from: anonymous, or a user of the table.
Callers(usrs) == {AnonymousUser} \cup { AuthUser(u) : u \in usrs }

\* A faulty variant of LoginRequiredPasses: the decorator left off the view.
LoginRequiredSkipped(user) == TRUE

\* @login_required: the view runs only for an authenticated request.user.
LoginRequiredPasses(user) == user.is_authenticated

----------------------------------------------------------------------------
(* The tables.                                                             *)

UserIds(usrs) == { u.id : u \in usrs }

\* User.objects.filter(username=username).exists()
UsernameExists(usrs, username) == \E u \in usrs : u.username = username

\* User.objects.create_user(username=..., password=...) raises: ValueError
\* ("The given username must be set") for an empty or missing username, and
\* IntegrityError when the INSERT meets the UNIQUE constraint of
\* auth_user.username.
CreateUserRaises(usrs, username) ==
    \/ username = ""
    \/ UsernameExists(usrs, username)

\* A faulty variant of NotNullViolated: the column declared with null=True.
NotNullDropped(v) == FALSE

\* A column declared without null=True is NOT NULL: None is rejected.
NotNullViolated(v) == v.type = "null"

\* IntegerField converts with int(value): text that is no number raises.
IntegerFieldRaises(v) == v.type = "str"

\* ForeignKey(User): the row's user_id must be the id of an auth_user row.
ForeignKeyViolated(usrs, user) == user.id \notin UserIds(usrs)

\* Score.objects.create(user=, score=, game_mode=, player_name=) raises.
ScoreCreateRaises(usrs, user, score, game_mode, player_name) ==
    \/ NotNullViolated(score)
    \/ IntegerFieldRaises(score)
    \/ NotNullViolated(game_mode)
    \/ NotNullViolated(player_name)
    \/ ForeignKeyViolated(usrs, user)

\* The row Score.objects.create inserts: id from the auto-increment key,
\* timestamp from auto_now_add.
ScoreRow(id, user, score, game_mode, player_name, now) ==
    [id |-> id, user_id |-> user.id, score |-> score.int, timestamp |-> now,
     game_mode |-> game_mode.str, player_name |-> player_name.str]

\* A faulty variant of CascadeDelete: on_delete that leaves the rows in place.
CascadeNothing(scs, uid) == scs

\* on_delete=models.CASCADE: deleting a user deletes the rows that
\* reference it.
CascadeDelete(scs, uid) == SelectSeq(scs, LAMBDA s : s.user_id # uid)

\* user__username: the username joined through the foreign key.
UsernameOf(usrs, uid) == (CHOOSE u \in usrs : u.id = uid).username

----------------------------------------------------------------------------
(* Queries of scores_page.                                                 *)

\* ORDER BY field DESC.  The order of rows with equal keys is not fixed by
\* the query: `stable` chooses between the two orders a scan yields (ties
\* kept in storage order, or ties in reverse storage order).
RECURSIVE InsertDesc(_, _, _, _)
InsertDesc(x, s, field, stable) ==
    IF s = <<>> THEN <<x>>
    ELSE IF x[field] > Head(s)[field] \/ (stable /\ x[field] = Head(s)[field])
         THEN <<x>> \o s
         ELSE <<Head(s)>> \o InsertDesc(x, Tail(s), field, stable)

RECURSIVE OrderByDesc(_, _, _)
OrderByDesc(s, field, stable) ==
    IF s = <<>> THEN <<>>
    ELSE InsertDesc(Head(s), OrderByDesc(Tail(s), field, stable), field, stable)

\* queryset[:n]
Slice(s, n) == SubSeq(s, 1, IF Len(s) < n THEN Len(s) ELSE n)

\* Score.objects.all().order_by('-timestamp')
AllScores(scs, stable) == OrderByDesc(scs, "timestamp", stable)

\* A faulty variant of UserScores: order_by('timestamp'), oldest first.
UserScoresOldestFirst(scs, user, stable) ==
    SelectSeq(scs, LAMBDA s : s.user_id = user.id)

\* Score.objects.filter(user=request.user).order_by('-timestamp')
UserScores(scs, user, stable) ==
    OrderByDesc(SelectSeq(scs, LAMBDA s : s.user_id = user.id),
                "timestamp", stable)

\* A faulty variant of TopScores: the slice one row too long.
TopScoresOneMore(scs, stable) ==
    Slice(OrderByDesc(scs, "score", stable), TopLimit + 1)

\* Score.objects.all().order_by('-score')[:10]
TopScores(scs, stable) ==
    Slice(OrderByDesc(scs, "score", stable), TopLimit)

\* The usernames that own a row, each once, in order of first appearance.
RECURSIVE GroupKeys(_, _)
GroupKeys(scs, usrs) ==
    IF scs = <<>> THEN <<>>
    ELSE LET rest == GroupKeys(SubSeq(scs, 1, Len(scs) - 1), usrs)
             name == UsernameOf(usrs, scs[Len(scs)].user_id)
         IN  IF \E i \in 1..Len(rest) : rest[i] = name
             THEN rest ELSE Append(rest, name)

\* Count('id'), Sum and Max of 'score' over the rows of one group.
RECURSIVE SumScore(_)
SumScore(rows) ==
    IF rows = <<>> THEN 0 ELSE Head(rows).score + SumScore(Tail(rows))

\* A faulty variant of MaxScore: Min('score') in place of Max('score').
MinScore(rows) ==
    LET vals == { rows[i].score : i \in 1..Len(rows) }
    IN  CHOOSE m \in vals : \A v \in vals : m <= v

RECURSIVE MaxScore(_)
MaxScore(rows) ==
    IF Len(rows) = 1 THEN Head(rows).score
    ELSE LET m == MaxScore(Tail(rows))
         IN  IF Head(rows).score > m THEN Head(rows).score ELSE m

\* Avg('score') is the exact quotient sum/count, kept as the fraction
\* num/den.
Group(scs, usrs, name) ==
    LET rows == SelectSeq(scs, LAMBDA s : UsernameOf(usrs, s.user_id) = name)
    IN  [user__username |-> name,
         total_games |-> Len(rows),
         avg_score |-> [num |-> SumScore(rows), den |-> Len(rows)],
         best_score |-> MaxScore(rows)]

\* Score.objects.values('user__username').annotate(total_games=Count('id'),
\*     avg_score=Avg('score'), best_score=Max('score')).order_by('-best_score')
UserStats(scs, usrs, stable) ==
    LET keys == GroupKeys(scs, usrs)
        groups == [i \in 1..Len(keys) |-> Group(scs, usrs, keys[i])]
    IN  OrderByDesc(groups, "best_score", stable)

\* The context handed to scores.html.
NoContext == [computed |-> FALSE]
ScoresContext(scs, usrs, user, stable) ==
    [computed |-> TRUE,
     all_scores |-> AllScores(scs, stable),
     user_scores |-> UserScores(scs, user, stable),
     top_scores |-> TopScores(scs, stable),
     user_stats |-> UserStats(scs, usrs, stable)]

----------------------------------------------------------------------------
(* Responses.                                                              *)

NoResponse == [kind |-> "none"]

\* render(request, template, context), with the message flashed by
\* messages.error in the same request ("" when there is none).
Render(template, message, context) ==
    [kind |-> "render", status |-> 200, template |-> template,
     message |-> message, context |-> context]

\* @login_required sends an unauthenticated caller to the login URL.
RedirectToLogin ==
    [kind |-> "redirect", status |-> 302, to |-> "login", message |-> ""]

\* redirect("login") after messages.success(...)
RegisteredRedirect ==
    [kind |-> "redirect", status |-> 302, to |-> "login",
     message |-> "Account created successfully!"]

\* @require_POST answers any other method with 405.
MethodNotAllowed == [kind |-> "not_allowed", status |-> 405]

\* An exception no view catches: the framework answers 500.
ServerError == [kind |-> "server_error", status |-> 500]

\* JsonResponse({'status': 'success'})
SuccessResponse == [kind |-> "json", status |-> 200, json_status |-> "success"]

\* A faulty variant of ErrorResponse: status=400 left out, so the default 200.
ErrorResponseDefaultStatus ==
    [kind |-> "json", status |-> 200, json_status |-> "error"]

\* JsonResponse({'status': 'error', 'message': str(e)}, status=400)
ErrorResponse == [kind |-> "json", status |-> 400, json_status |-> "error"]

----------------------------------------------------------------------------
(* Request slots.                                                          *)

Idle == [pc |-> "idle"]

NoPost == [username |-> "", password |-> "", password2 |-> ""]
NoLocal == [score_value |-> JNull, game_mode_value |-> JNull,
            player_name_value |-> JNull]

\* A request whose handler has returned `response`.
Done(handler, method, user, post, body, response) ==
    [pc |-> "done", handler |-> handler, method |-> method, user |-> user,
     POST |-> post, body |-> body, local |-> NoLocal, response |-> response]

\* A request stopped before the database write at `pc`.
Pending(pc, handler, method, user, post, body, local) ==
    [pc |-> pc, handler |-> handler, method |-> method, user |-> user,
     POST |-> post, body |-> body, local |-> local, response |-> NoResponse]

\* Requests stopped before the write `pc`: each will consume one key.
InFlight(pc) == Cardinality({ r \in DOMAIN req : req[r].pc = pc })

Finish(r, response) ==
    req' = [req EXCEPT ![r] =
              Done(req[r].handler, req[r].method, req[r].user, req[r].POST,
                   req[r].body, response)]

----------------------------------------------------------------------------
(* Page handlers.                                                          *)

\* @login_required def home(request)
Home(r, method, user) ==
    /\ req[r] = Idle
    /\ req' = [req EXCEPT ![r] =
                 Done("home", method, user, NoPost, EmptyBody,
                      IF LoginRequiredPasses(user)
                      THEN Render("home.html", "", NoContext)
                      ELSE RedirectToLogin)]
    /\ UNCHANGED <<users, scores, nextUserId, nextScoreId, clock>>

\* @login_required def game_page(request)
GamePage(r, method, user) ==
    /\ req[r] = Idle
    /\ req' = [req EXCEPT ![r] =
                 Done("game_page", method, user, NoPost, EmptyBody,
                      IF LoginRequiredPasses(user)
                      THEN Render("game.html", "", NoContext)
                      ELSE RedirectToLogin)]
    /\ UNCHANGED <<users, scores, nextUserId, nextScoreId, clock>>

\* @login_required def how_to_play(request)
HowToPlay(r, method, user) ==
    /\ req[r] = Idle
    /\ req' = [req EXCEPT ![r] =
                 Done("how_to_play", method, user, NoPost, EmptyBody,
                      IF LoginRequiredPasses(user)
                      THEN Render("how_to_play.html", "", NoContext)
                      ELSE RedirectToLogin)]
    /\ UNCHANGED <<users, scores, nextUserId, nextScoreId, clock>>

\* @login_required def scores_page(request): the four queries, evaluated
\* when scores.html is rendered.  `stable` is the order the database
\* returns rows of equal sort key in.
ScoresPage(r, method, user, stable) ==
    /\ req[r] = Idle
    /\ req' = [req EXCEPT ![r] =
                 Done("scores_page", method, user, NoPost, EmptyBody,
                      IF LoginRequiredPasses(user)
                      THEN Render("scores.html", "",
                                  ScoresContext(scores, users, user, stable))
                      ELSE RedirectToLogin)]
    /\ UNCHANGED <<users, scores, nextUserId, nextScoreId, clock>>

----------------------------------------------------------------------------
(* register                                                                *)

\* def register(request), up to the exists() query.
RegisterCheck(r, method, post) ==
    /\ req[r] = Idle
    /\ IF method = "POST"
       THEN IF post.password # post.password2
            THEN req' = [req EXCEPT ![r] =
                   Done("register", method, AnonymousUser, post, EmptyBody,
                        Render("accounts/register.html",
                               "Passwords do not match", NoContext))]
            ELSE IF UsernameExists(users, post.username)
            THEN req' = [req EXCEPT ![r] =
                   Done("register", method, AnonymousUser, post, EmptyBody,
                        Render("accounts/register.html",
                               "Username already taken", NoContext))]
            ELSE req' = [req EXCEPT ![r] =
                   Pending("create_user", "register", method, AnonymousUser,
                           post, EmptyBody, NoLocal)]
       ELSE req' = [req EXCEPT ![r] =
                   Done("register", method, AnonymousUser, NoPost, EmptyBody,
                        Render("accounts/register.html", "", NoContext))]
    /\ UNCHANGED <<users, scores, nextUserId, nextScoreId, clock>>

\* User.objects.create_user(...), then the redirect.  No view catches what
\* create_user raises.
RegisterCreateUser(r) ==
    /\ req[r].pc = "create_user"
    /\ IF CreateUserRaises(users, req[r].POST.username)
       THEN /\ Finish(r, ServerError)
            /\ UNCHANGED <<users, nextUserId>>
       ELSE /\ users' = users \cup
                  {[id |-> nextUserId, username |-> req[r].POST.username]}
            /\ nextUserId' = nextUserId + 1
            /\ Finish(r, RegisteredRedirect)
    /\ UNCHANGED <<scores, nextScoreId, clock>>

----------------------------------------------------------------------------
(* save_score                                                              *)

\* @login_required @require_POST def save_score(request), up to the call of
\* Score.objects.create: the decorators, json.loads and the three data.get.
SaveScoreParse(r, method, user, body) ==
    /\ req[r] = Idle
    /\ IF ~LoginRequiredPasses(user)
       THEN req' = [req EXCEPT ![r] =
              Done("save_score", method, user, NoPost, body, RedirectToLogin)]
       ELSE IF method # "POST"
       THEN req' = [req EXCEPT ![r] =
              Done("save_score", method, user, NoPost, body, MethodNotAllowed)]
       ELSE IF JsonLoadsRaises(body) \/ GetRaises(body)
       THEN req' = [req EXCEPT ![r] =
              Done("save_score", method, user, NoPost, body, ErrorResponse)]
       ELSE req' = [req EXCEPT ![r] =
              Pending("create", "save_score", method, user, NoPost, body,
                      [score_value |-> DictGet(body, "score"),
                       game_mode_value |->
                           DictGetDefault(body, "game_mode", ViewDefaultGameMode),
                       player_name_value |->
                           DictGetDefault(body, "player_name",
                                          ViewDefaultPlayerName)])]
    /\ UNCHANGED <<users, scores, nextUserId, nextScoreId, clock>>

\* Score.objects.create(...) and the response; `except Exception` answers
\* whatever create raises with the error response.  create() reads the
\* clock for auto_now_add and inserts in one call: the call is one step,
\* and the clock has advanced by the time of the next insert.
SaveScoreCreate(r) ==
    /\ req[r].pc = "create"
    /\ LET l == req[r].local IN
       IF ScoreCreateRaises(users, req[r].user, l.score_value,
                            l.game_mode_value, l.player_name_value)
       THEN /\ Finish(r, ErrorResponse)
            /\ UNCHANGED <<scores, nextScoreId, clock>>
       ELSE /\ scores' = Append(scores,
                  ScoreRow(nextScoreId, req[r].user, l.score_value,
                           l.game_mode_value, l.player_name_value, clock))
            /\ nextScoreId' = nextScoreId + 1
            /\ clock' = clock + 1
            /\ Finish(r, SuccessResponse)
    /\ UNCHANGED <<users, nextUserId>>

----------------------------------------------------------------------------
(* The rest of the environment.                                            *)

\* The response leaves; the slot is free for the next request.
Return(r) ==
    /\ req[r].pc = "done"
    /\ req' = [req EXCEPT ![r] = Idle]
    /\ UNCHANGED <<users, scores, nextUserId, nextScoreId, clock>>

\* The admin site deletes a user: the rows that reference it go with it.
DeleteUser(uid) ==
    /\ uid \in UserIds(users)
    /\ users' = { u \in users : u.id # uid }
    /\ scores' = CascadeDelete(scores, uid)
    /\ UNCHANGED <<nextUserId, nextScoreId, clock, req>>

----------------------------------------------------------------------------
(* Inputs.                                                                 *)

Methods == {"GET", "POST"}

\* Form fields of a registration POST; "" is a field left empty or missing.
Posts(usernames, passwords) ==
    [username : usernames, password : passwords, password2 : passwords]

\* Whether the auto-increment keys still allow a request that may insert.
UserBudget(max) == nextUserId + InFlight("create_user") <= max
ScoreBudget(max) == nextScoreId + InFlight("create") <= max

\* The database after construction: no user, no score, no request.
Init ==
    /\ users = {}
    /\ scores = <<>>
    /\ nextUserId = 1
    /\ nextScoreId = 1
    /\ clock = 1
    /\ req = [r \in Requests |-> Idle]

----------------------------------------------------------------------------
(* Spec: requests served one at a time, with the admin's deletions between *)
(* their steps.                                                            *)

SeqPosts == Posts({"", "alice", "bob"}, {"pw1", "pw2"})

SeqBodies ==
    {MalformedBody, ArrayBody} \cup
    { MakeObject(s, m, n) : s \in {Absent, JInt(5)},
                            m \in {Absent, JStr("versus")},
                            n \in {Absent, JStr("Ann")} }

Next ==
    \/ \E r \in OneRequest, user \in Callers(users) : Home(r, "GET", user)
    \/ \E r \in OneRequest, user \in Callers(users) : GamePage(r, "GET", user)
    \/ \E r \in OneRequest, user \in Callers(users) : HowToPlay(r, "GET", user)
    \/ \E r \in OneRequest, user \in Callers(users), stable \in BOOLEAN :
          ScoresPage(r, "GET", user, stable)
    \/ \E r \in OneRequest, user \in Callers(users), method \in Methods,
          body \in SeqBodies :
          /\ ScoreBudget(MaxScoreId)
          /\ SaveScoreParse(r, method, user, body)
    \/ \E r \in OneRequest : SaveScoreCreate(r)
    \/ \E r \in OneRequest, method \in Methods, post \in SeqPosts :
          /\ UserBudget(MaxUserId)
          /\ RegisterCheck(r, method, post)
    \/ \E r \in OneRequest : RegisterCreateUser(r)
    \/ \E r \in OneRequest : Return(r)
    \/ \E u \in users : DeleteUser(u.id)

Spec == Init /\ [][Next]_vars

----------------------------------------------------------------------------
(* SpecConc: two requests in flight at once, their steps interleaved in    *)
(* every order: registrations, score submissions and the scores page.      *)

ConcPosts == Posts({"alice", "bob"}, {"pw1"})

ConcBodies == { MakeObject(s, Absent, Absent) : s \in {JInt(5), JInt(15)} }

NextConc ==
    \/ \E r \in Requests, post \in ConcPosts :
          /\ UserBudget(MaxUserId)
          /\ RegisterCheck(r, "POST", post)
    \/ \E r \in Requests : RegisterCreateUser(r)
    \/ \E r \in Requests, user \in Callers(users) \ {AnonymousUser},
          body \in ConcBodies :
          /\ ScoreBudget(MaxScoreId)
          /\ SaveScoreParse(r, "POST", user, body)
    \/ \E r \in Requests : SaveScoreCreate(r)
    \/ \E r \in Requests, user \in Callers(users) \ {AnonymousUser},
          stable \in BOOLEAN :
          ScoresPage(r, "GET", user, stable)
    \/ \E r \in Requests : Return(r)

SpecConc == Init /\ [][NextConc]_vars

----------------------------------------------------------------------------
(* SpecTop: one registered user submits more scores than the leaderboard   *)
(* shows, and views the scores page.                                       *)

InitTop ==
    /\ users = {[id |-> 1, username |-> "alice"]}
    /\ scores = <<>>
    /\ nextUserId = 2
    /\ nextScoreId = 1
    /\ clock = 1
    /\ req = [r \in Requests |-> Idle]

TopBodies == { MakeObject(s, Absent, Absent) : s \in {JInt(5), JInt(15)} }

NextTop ==
    \/ \E r \in OneRequest, user \in Callers(users) \ {AnonymousUser},
          body \in TopBodies :
          /\ ScoreBudget(MaxTopScores)
          /\ SaveScoreParse(r, "POST", user, body)
    \/ \E r \in OneRequest : SaveScoreCreate(r)
    \/ \E r \in OneRequest, user \in Callers(users) \ {AnonymousUser},
          stable \in BOOLEAN :
          ScoresPage(r, "GET", user, stable)
    \/ \E r \in OneRequest : Return(r)

SpecTop == InitTop /\ [][NextTop]_vars

----------------------------------------------------------------------------
(* SpecStats: two registered users submit scores, the admin deletes users, *)
(* and the scores page computes the per-user statistics.                   *)

InitStats ==
    /\ users = {[id |-> 1, username |-> "alice"], [id |-> 2, username |-> "bob"]}
    /\ scores = <<>>
    /\ nextUserId = 3
    /\ nextScoreId = 1
    /\ clock = 1
    /\ req = [r \in Requests |-> Idle]

StatsBodies ==
    { MakeObject(s, Absent, Absent) : s \in {JInt(10), JInt(20), JInt(30)} }

NextStats ==
    \/ \E r \in OneRequest, user \in Callers(users) \ {AnonymousUser},
          body \in StatsBodies :
          /\ ScoreBudget(MaxStatsScores)
          /\ SaveScoreParse(r, "POST", user, body)
    \/ \E r \in OneRequest : SaveScoreCreate(r)
    \/ \E r \in OneRequest, user \in Callers(users) \ {AnonymousUser},
          stable \in BOOLEAN :
          ScoresPage(r, "GET", user, stable)
    \/ \E r \in OneRequest : Return(r)
    \/ \E u \in users : DeleteUser(u.id)

SpecStats == InitStats /\ [][NextStats]_vars

----------------------------------------------------------------------------
(* Vocabulary of the properties.                                           *)

\* The step in which slot r takes up a request for handler h.
Started(r, h) == req[r] = Idle /\ req'[r] # Idle /\ req'[r].handler = h

\* The step in which the request of slot r, stopped before the write `pc`,
\* performs it and answers.
Wrote(r, pc) == req[r].pc = pc /\ req'[r].pc = "done"

\* A request of slot r that handler h has answered.
Answered(r, h) == req[r].pc = "done" /\ req[r].handler = h

IsError400(resp) ==
    resp.kind = "json" /\ resp.status = 400 /\ resp.json_status = "error"

IsSuccess(resp) ==
    resp.kind = "json" /\ resp.status = 200 /\ resp.json_status = "success"

IsLoginRedirect(resp) == resp.kind = "redirect" /\ resp.to = "login"

\* A body of the shape {score: integer, game_mode?: string,
\* player_name?: string}.
IsScorePayload(body) ==
    /\ body.kind = "object"
    /\ "score" \in DOMAIN body.data /\ body.data["score"].type = "int"
    /\ "game_mode" \in DOMAIN body.data => body.data["game_mode"].type = "str"
    /\ "player_name" \in DOMAIN body.data
          => body.data["player_name"].type = "str"

\* The positions of the rows of `scs` that user id `uid` owns.
Owned(scs, uid) == { i \in 1..Len(scs) : scs[i].user_id = uid }

----------------------------------------------------------------------------
----------------------------------------------------------------------------
(* C2.  Whenever save_score fails while parsing the body (text that is not *)
(* JSON, a JSON value that is not an object) or while persisting (the      *)
(* storage rejects the row), the answer is the error response with status  *)
(* 400 and the Score table is what it was before the step.                 *)
C2_FailureIs400AndWritesNothing ==
    [][\A r \in Requests :
        /\ ( /\ Started(r, "save_score")
             /\ req'[r].user.is_authenticated
             /\ req'[r].method = "POST"
             /\ req'[r].body.kind # "object" )
           => ( /\ req'[r].pc = "done"
                /\ IsError400(req'[r].response)
                /\ scores' = scores )
        /\ ( /\ Wrote(r, "create")
             /\ \/ req[r].local.score_value.type # "int"
                \/ req[r].user.id \notin UserIds(users) )
           => ( /\ IsError400(req'[r].response)
                /\ scores' = scores )
        /\ ( /\ req[r].pc # "done"
             /\ req'[r].pc = "done"
             /\ req'[r].handler = "save_score"
             /\ ~IsSuccess(req'[r].response) )
           => scores' = scores
      ]_vars

\* A malformed body was answered with the 400 error, and a row written
\* before it is still the whole table.
C2_Witness ==
    \E r \in Requests :
        /\ Answered(r, "save_score")
        /\ req[r].user.is_authenticated
        /\ req[r].body = MalformedBody
        /\ IsError400(req[r].response)
        /\ Len(scores) = 1

----------------------------------------------------------------------------
(* C9.  home, game_page, how_to_play, scores_page and save_score answer a  *)
(* caller without an authenticated session with the redirect to login and  *)
(* nothing else: no template, no context, no row written; and every row    *)
(* that enters the Score table is written by a save_score request whose    *)
(* caller was authenticated, with that caller as owner.                    *)
Protected == {"home", "game_page", "how_to_play", "scores_page", "save_score"}

C9_UnauthenticatedIsRedirected ==
    [][/\ \A r \in Requests, h \in Protected :
            (Started(r, h) /\ ~req'[r].user.is_authenticated)
            => ( /\ req'[r].pc = "done"
                 /\ IsLoginRedirect(req'[r].response)
                 /\ scores' = scores /\ users' = users )
       /\ Len(scores') > Len(scores)
            => \E r \in Requests :
                 /\ Wrote(r, "create")
                 /\ req[r].handler = "save_score"
                 /\ req[r].user.is_authenticated
                 /\ Len(scores') = Len(scores) + 1
                 /\ scores'[Len(scores')].user_id = req[r].user.id
      ]_vars

\* An anonymous save_score with a valid payload was redirected, after an
\* authenticated one had written a row.
C9_Witness ==
    \E r \in Requests :
        /\ Answered(r, "save_score")
        /\ ~req[r].user.is_authenticated
        /\ req[r].method = "POST"
        /\ IsScorePayload(req[r].body)
        /\ IsLoginRedirect(req[r].response)
        /\ Len(scores) = 1

----------------------------------------------------------------------------
(* C10 as stated.  An authenticated caller submits a JSON object without a *)
(* `score` key: a Score row for that caller is written.                    *)
C10_MissingScoreIsWritten ==
    [][\A r \in Requests :
        ( /\ Wrote(r, "create")
          /\ "score" \notin DOMAIN req[r].body.data
          /\ req[r].user.id \in UserIds(users) )
        => ( /\ Len(scores') = Len(scores) + 1
             /\ scores'[Len(scores')].user_id = req[r].user.id )
      ]_vars

(* C10 as amended.  An authenticated caller submits a JSON object without  *)
(* a `score` key: save_score passes None through to Score.objects.create,  *)
(* the NOT NULL column rejects it, the answer is the error response with   *)
(* status 400, and no Score row is written.                                *)
C10_MissingScoreIsRejected ==
    [][\A r \in Requests :
        /\ ( /\ Started(r, "save_score")
             /\ req'[r].user.is_authenticated
             /\ req'[r].method = "POST"
             /\ req'[r].body.kind = "object"
             /\ "score" \notin DOMAIN req'[r].body.data )
           => ( /\ req'[r].pc = "create"
                /\ req'[r].local.score_value = JNull
                /\ scores' = scores )
        /\ ( /\ Wrote(r, "create")
             /\ "score" \notin DOMAIN req[r].body.data )
           => ( /\ IsError400(req'[r].response)
                /\ scores' = scores )
      ]_vars

\* A payload without `score`, from a user who still exists, was answered.
C10_Witness ==
    \E r \in Requests :
        /\ Answered(r, "save_score")
        /\ req[r].user.id \in UserIds(users)
        /\ req[r].method = "POST"
        /\ req[r].body.kind = "object"
        /\ "score" \notin DOMAIN req[r].body.data
        /\ "player_name" \in DOMAIN req[r].body.data
        /\ IsError400(req[r].response)

----------------------------------------------------------------------------
(* C3.  Whatever the interleaving of registration requests, the User table *)
(* holds at most one row per username, and every registration request that *)
(* has been answered was answered with the re-rendered form carrying a     *)
(* rejection or with the redirect to login.                                *)
C3_RegistrationNeverDuplicatesNorCrashes ==
    /\ \A u1, u2 \in users : u1.username = u2.username => u1 = u2
    /\ \A r \in Requests :
          Answered(r, "register")
          => \/ /\ req[r].response.kind = "render"
                /\ req[r].response.template = "accounts/register.html"
             \/ IsLoginRedirect(req[r].response)

----------------------------------------------------------------------------
(* C4.  A registration POST is decided in a fixed order: passwords that    *)
(* differ are rejected with "Passwords do not match", also when the        *)
(* username is taken; else a taken username is rejected with "Username     *)
(* already taken"; both leave the User table unchanged; otherwise exactly  *)
(* one User with that username is created and the caller is redirected to  *)
(* login.  A GET creates no User.                                          *)
C4_RegistrationDecidedInOrder ==
    [][\A r \in Requests :
        /\ Started(r, "register")
           => LET q == req'[r] IN
              /\ users' = users
              /\ IF q.method # "POST"
                 THEN q.pc = "done" /\ q.response.kind = "render"
                 ELSE IF q.POST.password # q.POST.password2
                 THEN /\ q.pc = "done"
                      /\ q.response.kind = "render"
                      /\ q.response.message = "Passwords do not match"
                 ELSE IF \E u \in users : u.username = q.POST.username
                 THEN /\ q.pc = "done"
                      /\ q.response.kind = "render"
                      /\ q.response.message = "Username already taken"
                 ELSE q.pc = "create_user"
        /\ Wrote(r, "create_user")
           => /\ \E u \in users' :
                   /\ u.username = req[r].POST.username
                   /\ u \notin users
                   /\ users' = users \cup {u}
              /\ IsLoginRedirect(req'[r].response)
      ]_vars

----------------------------------------------------------------------------
(* C5.  Every Score row's owner is a row of the User table, in every       *)
(* reachable state; the step that deletes a User removes exactly the rows  *)
(* that user owns and leaves the other rows as they were.                  *)
C5_NoOrphanScore ==
    /\ [](\A i \in 1..Len(scores) : \E u \in users : u.id = scores[i].user_id)
    /\ [][\A u \in users :
            u \notin users'
            => /\ \A i \in 1..Len(scores') : scores'[i].user_id # u.id
               /\ scores' = SelectSeq(scores, LAMBDA s : s.user_id # u.id)
         ]_vars

\* A user that owned a row was deleted; another user's row remains.
C5_Witness ==
    /\ nextUserId = 3 /\ Cardinality(users) = 1
    /\ nextScoreId = 3 /\ Len(scores) = 1

----------------------------------------------------------------------------
(* C6.  Two save_score requests of the same user, their steps interleaved  *)
(* in any order, both succeed and leave two distinct Score rows, also when *)
(* their payloads are equal; the user's history on the scores page then    *)
(* lists exactly that user's rows, by timestamp descending, a row          *)
(* inserted later before a row inserted earlier.                           *)

\* The answered, successful submissions of `user` with payload `body`.
Succeeded(user, body) ==
    { r \in Requests : /\ Answered(r, "save_score")
                       /\ req[r].user = user
                       /\ req[r].body = body
                       /\ IsSuccess(req[r].response) }

\* `h` lists exactly the rows of `scs` that `uid` owns, later inserts first.
IsHistoryOf(h, scs, uid) ==
    /\ Len(h) = Cardinality(Owned(scs, uid))
    /\ \A i \in Owned(scs, uid) : \E k \in 1..Len(h) : h[k] = scs[i]
    /\ \A k \in 1..Len(h) : h[k].user_id = uid
    /\ \A k, l \in 1..Len(h) :
          k < l => /\ h[k].timestamp > h[l].timestamp
                   /\ \E i, j \in 1..Len(scs) :
                         i > j /\ scs[i] = h[k] /\ scs[j] = h[l]

----------------------------------------------------------------------------
(* C7.  The leaderboard of the scores page holds min(10, number of Score   *)
(* rows) rows, never more than 10, each a row of the table and none twice, *)
(* sorted by score descending; every row left out has a score no greater   *)
(* than the smallest score included.                                       *)
C7_TopScoresAreTheTenBest ==
    \A r \in Requests :
        (Answered(r, "scores_page") /\ req[r].response.kind = "render")
        => LET top == req[r].response.context.top_scores
               n == Len(scores)
           IN  /\ Len(top) = IF n < 10 THEN n ELSE 10
               /\ Len(top) <= 10
               /\ \A k \in 1..Len(top) : \E i \in 1..n : scores[i] = top[k]
               /\ \A k, l \in 1..Len(top) : top[k].id = top[l].id => k = l
               /\ \A k \in 1..(Len(top) - 1) : top[k].score >= top[k + 1].score
               /\ \A i \in 1..n :
                     (\A k \in 1..Len(top) : top[k] # scores[i])
                     => scores[i].score <= top[Len(top)].score

\* A leaderboard of 10 rows over a table of more than 10, with both scores
\* on the board and a row of the higher score's value left out or kept.
C7_Witness ==
    \E r \in Requests :
        /\ Answered(r, "scores_page")
        /\ Len(scores) > 10
        /\ Len(req[r].response.context.top_scores) = 10
        /\ req[r].response.context.top_scores[1].score
              > req[r].response.context.top_scores[10].score

----------------------------------------------------------------------------
(* C8.  The per-user statistics of the scores page hold exactly one group  *)
(* per username that owns a Score row; a group's count is the number of    *)
(* that user's rows, its average is the sum of their scores divided by the *)
(* count, its best is the maximum of their scores (scores 10, 20, 30 give  *)
(* count 3, average 20, best 30); the groups are ordered by best           *)
(* descending; computing them leaves the Score table unchanged.            *)

RECURSIVE SumAt(_, _)
SumAt(scs, idx) ==
    IF idx = {} THEN 0
    ELSE LET i == CHOOSE i \in idx : TRUE
         IN  scs[i].score + SumAt(scs, idx \ {i})

\* The multiset of scores at the positions idx, as score -> multiplicity.
ScoresAre(scs, idx, a, b, c) ==
    /\ Cardinality(idx) = 3
    /\ \E i, j, k \in idx :
          /\ i # j /\ j # k /\ i # k
          /\ scs[i].score = a /\ scs[j].score = b /\ scs[k].score = c

IsStatsOf(stats, scs, usrs) ==
    /\ \A u \in usrs :
          Owned(scs, u.id) # {}
          => \E k \in 1..Len(stats) : stats[k].user__username = u.username
    /\ \A k, l \in 1..Len(stats) :
          stats[k].user__username = stats[l].user__username => k = l
    /\ \A k \in 1..Len(stats) :
          \E u \in usrs :
             LET mine == Owned(scs, u.id) IN
             /\ stats[k].user__username = u.username
             /\ mine # {}
             /\ stats[k].total_games = Cardinality(mine)
             /\ stats[k].avg_score.den > 0
             /\ stats[k].avg_score.num * Cardinality(mine)
                   = SumAt(scs, mine) * stats[k].avg_score.den
             /\ \E i \in mine : scs[i].score = stats[k].best_score
             /\ \A i \in mine : scs[i].score <= stats[k].best_score
             /\ ScoresAre(scs, mine, 10, 20, 30)
                   => /\ stats[k].total_games = 3
                      /\ stats[k].avg_score.num = 20 * stats[k].avg_score.den
                      /\ stats[k].best_score = 30
    /\ \A k \in 1..(Len(stats) - 1) :
          stats[k].best_score >= stats[k + 1].best_score

C8_UserStatsPerUsername ==
    [][\A r \in Requests :
        (Started(r, "scores_page") /\ req'[r].response.kind = "render")
        => /\ scores' = scores /\ users' = users
           /\ IsStatsOf(req'[r].response.context.user_stats, scores, users)
      ]_vars

\* The statistics of a table in which one user owns the scores 10, 20, 30
\* and another user owns a row too.
C8_Witness ==
    \E r \in Requests :
        /\ Answered(r, "scores_page")
        /\ req[r].response.kind = "render"
        /\ Len(req[r].response.context.user_stats) = 2
        /\ \E k \in 1..2 :
              LET g == req[r].response.context.user_stats[k] IN
              /\ g.total_games = 3
              /\ g.avg_score = [num |-> 60, den |-> 3]
              /\ g.best_score = 30

====
